---- MODULE Spec2Model ----
(***************************************************************************)
(* Model of 2fa_monitor.py: class TwoFactorMonitor.                        *)
(*                                                                         *)
(* Texts are sequences of one-character strings.  Python's None and the    *)
(* empty string are both modelled by the empty sequence: at every place    *)
(* the code looks at such a value it only tests its truthiness.            *)
(***************************************************************************)
EXTENDS Integers, Sequences, FiniteSets, TLC

\* ------------------------------------------------------------------ bounds
\* Two families of executions are explored.
\*   "short": few messages, several irregular events (Spec).
\*   "long":  enough messages to overflow the list of processed codes,
\*            few irregular events (SpecLong).
\* Number of rows the Messages app ever inserts (ROWIDs 1..MaxId).
MaxId == 4
\* Irregular insertions in one execution: a row that is not a plain text
\* with a code of its own, or a row inserted while another is still pending.
MaxSpecial == 1
\* Environment failures (clipboard, notification, query) in one execution.
MaxFaults == 1
\* The same for the long executions; there insertions and failures share
\* one budget.
LongMaxId == 12
LongMaxIrregular == 1
\* Rows inserted in the executions checked for progress of the loop
\* (SpecLive); their other budgets are those of the short executions.
LiveMaxId == 1

\* ------------------------------------------------------------ characters
None == <<>>

Digits == {"0", "1", "2", "3", "4", "5", "6", "7", "8", "9"}
UpperLetters == {"A", "B", "C", "D", "E", "F", "G", "H", "I", "J", "K", "L", "M",
                 "N", "O", "P", "Q", "R", "S", "T", "U", "V", "W", "X", "Y", "Z"}
LowerLetters == {"a", "b", "c", "d", "e", "f", "g", "h", "i", "j", "k", "l", "m",
                 "n", "o", "p", "q", "r", "s", "t", "u", "v", "w", "x", "y", "z"}
\* Characters below code point 32, DEL, and a byte that is no valid UTF-8.
ControlChars == {"NUL", "SOH", "TAB", "LF", "CR", "DEL"}
InvalidBytes == {"xFF"}
\* str.isspace(): the ASCII white space and the no-break space.
SpaceChars == {" ", "TAB", "LF", "CR", "NBSP"}

\* Mutant of IsWord: the underscore is no word character.
IsWord_alnum(c) == c \in Digits \cup UpperLetters \cup LowerLetters

\* \w of a Python 3 str pattern: alphanumerics and the underscore.
IsWord(c) == c \in Digits \cup UpperLetters \cup LowerLetters \cup {"_"}

DigitChars == <<"0", "1", "2", "3", "4", "5", "6", "7", "8", "9">>

\* ---------------------------------------------------------- extract_code
\* self.patterns, in dict insertion order: \b<class>{n}\b
patterns == << [name |-> "6-digit", class |-> Digits, n |-> 6],
               [name |-> "4-digit", class |-> Digits, n |-> 4],
               [name |-> "6-char", class |-> UpperLetters \cup Digits, n |-> 6],
               [name |-> "4-char", class |-> UpperLetters \cup Digits, n |-> 4] >>

\* \b at the gap after position g (0 = before the first character).
WordAt(text, k) == k >= 1 /\ k <= Len(text) /\ IsWord(text[k])
Boundary(text, g) == WordAt(text, g) # WordAt(text, g + 1)

\* The pattern p matches text at start position i.
MatchAt(p, text, i) ==
    /\ i >= 1
    /\ i + p.n - 1 <= Len(text)
    /\ Boundary(text, i - 1)
    /\ \A k \in i..(i + p.n - 1) : text[k] \in p.class
    /\ Boundary(text, i + p.n - 1)

RECURSIVE ScanFrom(_, _, _)
ScanFrom(p, text, i) ==
    IF i + p.n - 1 > Len(text) THEN 0
    ELSE IF MatchAt(p, text, i) THEN i
    ELSE ScanFrom(p, text, i + 1)

RECURSIVE ScanBack(_, _, _)
ScanBack(p, text, i) ==
    IF i < 1 THEN 0
    ELSE IF MatchAt(p, text, i) THEN i
    ELSE ScanBack(p, text, i - 1)

\* Mutant of search: the rightmost match instead of the leftmost.
search_rightmost(p, text) == ScanBack(p, text, Len(text) - p.n + 1)

\* pattern.search(text): start of the leftmost match, 0 for no match.
search(p, text) == ScanFrom(p, text, 1)

RECURSIVE ExtractFrom(_, _)
ExtractFrom(text, k) ==
    IF k > Len(patterns) THEN None
    ELSE LET i == search(patterns[k], text)
         IN  IF i # 0 THEN SubSeq(text, i, i + patterns[k].n - 1)
             ELSE ExtractFrom(text, k + 1)

extract_code(text) == ExtractFrom(text, 1)

\* ------------------------------------- extract_text_from_attributed_body
\* bytes.decode('utf-8', errors='ignore'): undecodable bytes are dropped.
decode(bytes) == SelectSeq(bytes, LAMBDA b : b \notin InvalidBytes)

\* (char.isprintable() or char.isspace()) and ord(char) >= 32
IsPrintable(c) == c \notin ControlChars \cup {"NBSP"}
IsSpace(c) == c \in SpaceChars
BelowSpace(c) == c \in {"NUL", "SOH", "TAB", "LF", "CR"}
Readable(c) == (IsPrintable(c) \/ IsSpace(c)) /\ ~BelowSpace(c)

\* re.sub(r'\s+', ' ', s): every run of white space becomes one space.
RECURSIVE CollapseFrom(_, _)
CollapseFrom(s, i) ==
    IF i > Len(s) THEN <<>>
    ELSE IF s[i] \in SpaceChars
         THEN IF i > 1 /\ s[i - 1] \in SpaceChars
              THEN CollapseFrom(s, i + 1)
              ELSE <<" ">> \o CollapseFrom(s, i + 1)
         ELSE <<s[i]>> \o CollapseFrom(s, i + 1)

\* str.strip()
RECURSIVE strip(_)
strip(s) ==
    IF s = <<>> THEN s
    ELSE IF Head(s) \in SpaceChars THEN strip(Tail(s))
    ELSE IF s[Len(s)] \in SpaceChars THEN strip(SubSeq(s, 1, Len(s) - 1))
    ELSE s

\* Mutant of extract_text_from_attributed_body: no minimum length.
extract_text_from_attributed_body_any_length(attributed_body) ==
    IF attributed_body = None THEN None
    ELSE strip(CollapseFrom(SelectSeq(decode(attributed_body), Readable), 1))

extract_text_from_attributed_body(attributed_body) ==
    IF attributed_body = None THEN None
    ELSE LET text == decode(attributed_body)
             readable_text == strip(CollapseFrom(SelectSeq(text, Readable), 1))
         IN  IF Len(readable_text) > 3 THEN readable_text ELSE None

\* ------------------------------------------------------------------ state
VARIABLES
    dbExists,          \* self.db_path.exists()
    dbReadable,        \* os.access(self.db_path, os.R_OK)
    store,             \* rows of table message above the cursor, newest date first
    next_rowid,        \* the ROWID the next inserted message gets
    pc,                \* position of run()
    last_message_id,   \* self.last_message_id
    processed_codes,   \* self.processed_codes
    messages,          \* the list check_for_new_messages iterates
    idx,               \* position of its for loop
    query_cursor,      \* the value bound to ROWID > ? in the last query
    fetched_ids,       \* ROWIDs of the rows the last query returned
    clipboard,         \* the system clipboard
    emitted_log,       \* the codes process_message returned, in order
    processed,         \* identifiers passed to process_message
    process_count,     \* number of calls of process_message
    last_outcome,      \* what the last loop iteration did
    polled,            \* check_for_new_messages has been called
    summary,           \* the count printed on KeyboardInterrupt, -1 before
    faults,            \* environment failures so far
    special,           \* irregular messages inserted so far
    mode,              \* the family of executions explored
    poll_tick,         \* flips at every call of check_for_new_messages ("live" only)
    x_pc, x_text, x_code   \* the extractor applied to a text on its own

vars == << dbExists, dbReadable, store, next_rowid, pc, last_message_id,
           processed_codes, messages, idx, query_cursor, fetched_ids, clipboard,
           emitted_log, processed, process_count, last_outcome, polled, summary,
           faults, special, mode, poll_tick, x_pc, x_text, x_code >>

envVars == << dbExists, dbReadable, mode >>
xVars == << x_pc, x_text, x_code >>
cursorVars == << last_message_id, processed_codes >>
loopVars == << messages, idx, query_cursor, fetched_ids >>
outVars == << clipboard, emitted_log, processed, process_count, last_outcome >>

\* self.max_processed_codes
max_processed_codes == 10
\* LIMIT 20
QueryLimit == 20

\* -------------------------------------------------------------- messages
\* A six-digit code of its own for every ROWID.
CodeOf(id) == << "4", "8", "2", "9", DigitChars[(id \div 10) + 1], DigitChars[(id % 10) + 1] >>

CodeText(code) == << "i", "s", " " >> \o code \o << "," >>

Kinds == { "code", "again", "joined", "nocode", "blank", "body", "mine" }

\* A row of table message with the number of chats it is joined to.
Row(kind, id) ==
    [ id |-> id,
      text |-> CASE kind = "code" -> CodeText(CodeOf(id))
                 [] kind = "again" -> CodeText(CodeOf(1))
                 [] kind = "joined" -> CodeText(CodeOf(id))
                 [] kind = "mine" -> CodeText(CodeOf(id))
                 [] kind = "nocode" -> << "h", "i", " ", "y", "o", "u" >>
                 [] OTHER -> None,
      attributedBody |-> CASE kind = "blank" -> << "SOH", "xFF", "h", "i", "LF" >>
                           [] kind = "body" -> << "SOH", "+" >> \o CodeText(CodeOf(id)) \o << "NUL" >>
                           [] OTHER -> None,
      is_from_me |-> kind = "mine",
      chats |-> IF kind = "joined" THEN 2 ELSE 1 ]

InsertAt(s, pos, e) == SubSeq(s, 1, pos - 1) \o << e >> \o SubSeq(s, pos, Len(s))

\* --------------------------------------------------- get_recent_messages
\* FROM message JOIN chat_message_join JOIN chat: one result row per chat.
RECURSIVE Joined(_)
Joined(rows) ==
    IF rows = <<>> THEN <<>>
    ELSE [ k \in 1..Head(rows).chats |-> Head(rows) ] \o Joined(Tail(rows))

\* WHERE message.ROWID > ? AND message.is_from_me = 0
\* ORDER BY message.date DESC LIMIT 20
Query(rows, cursor) ==
    LET hits == SelectSeq(Joined(rows), LAMBDA r : r.id > cursor /\ ~r.is_from_me)
    IN  SubSeq(hits, 1, IF Len(hits) < QueryLimit THEN Len(hits) ELSE QueryLimit)

\* The text of a row: the text column, else the decoded attributedBody.
MessageText(row) ==
    IF row.text = None /\ row.attributedBody # None
    THEN extract_text_from_attributed_body(row.attributedBody)
    ELSE row.text

\* Rows that yield some text, as (message_id, message_text).
RECURSIVE WithText(_)
WithText(rows) ==
    IF rows = <<>> THEN <<>>
    ELSE LET message_text == MessageText(Head(rows))
         IN  (IF message_text # None /\ Len(strip(message_text)) > 0
              THEN << [ id |-> Head(rows).id, text |-> message_text ] >>
              ELSE <<>>) \o WithText(Tail(rows))

IdsOf(rows) == { rows[k].id : k \in 1..Len(rows) }

\* Mutant of get_recent_messages: rows are returned although the query failed.
get_recent_messages_despite_failure(rows, cursor, query_ok) ==
    WithText(Query(rows, cursor))

\* query_ok = FALSE: sqlite3.Error (or any exception), caught: returns [].
get_recent_messages(rows, cursor, query_ok) ==
    IF query_ok THEN WithText(Query(rows, cursor)) ELSE <<>>

\* ------------------------------------------------------- process_message
Contains(seq, e) == \E k \in 1..Len(seq) : seq[k] = e

\* Mutant of is_new_code: the membership test is lost.
is_new_code_always(code, codes) == TRUE

\* code not in self.processed_codes
is_new_code(code, codes) == ~Contains(codes, code)

\* Mutant of keep_last: the list is never trimmed.
keep_last_untrimmed(codes) == codes

\* Mutant of keep_last: the oldest entries are kept, the newest dropped.
keep_last_oldest(codes) ==
    IF Len(codes) > max_processed_codes
    THEN SubSeq(codes, 1, max_processed_codes)
    ELSE codes

\* self.processed_codes[-self.max_processed_codes:] when the list is longer
keep_last(codes) ==
    IF Len(codes) > max_processed_codes
    THEN SubSeq(codes, Len(codes) - max_processed_codes + 1, Len(codes))
    ELSE codes

\* Mutant of next_processed_codes: a duplicate hit moves the code to the end.
next_processed_codes_lru(codes, code, rec) ==
    IF rec THEN keep_last(Append(codes, code))
    ELSE IF code # None /\ Contains(codes, code)
         THEN Append(SelectSeq(codes, LAMBDA c : c # code), code)
    ELSE codes

\* self.processed_codes after process_message: code is its candidate (None
\* when it was not called or found none), rec whether it reached the append.
next_processed_codes(codes, code, rec) ==
    IF rec THEN keep_last(Append(codes, code)) ELSE codes

ClipOutcomes == { "ok", "exit_nonzero", "raise" }

\* Mutant of copy_to_clipboard: the exception is not caught.
copy_to_clipboard_uncaught(outcome) ==
    IF outcome = "raise" THEN "raised" ELSE "True"

\* copy_to_clipboard: True unless Popen/communicate raised; pbcopy's exit
\* status is not looked at.
copy_to_clipboard(outcome) ==
    IF outcome = "raise" THEN "False" ELSE "True"

\* Mutant of records_code: the code is recorded whatever the copy returned.
records_code_always(code, codes, copied) == code # None /\ is_new_code(code, codes)

\* process_message reaches the append (and returns the code).
records_code(code, codes, copied) ==
    code # None /\ is_new_code(code, codes) /\ copied = "True"

\* Mutant of should_process: identifiers equal to the cursor pass too.
should_process_geq(message_id, last_id) == message_id >= last_id

\* if message_id > self.last_message_id
should_process(message_id, last_id) == message_id > last_id

\* Mutant of new_last_message_id: the cursor follows the last row seen.
new_last_message_id_last_seen(message_id, last_id) == message_id

\* self.last_message_id after the loop body
new_last_message_id(message_id, last_id) ==
    IF should_process(message_id, last_id) THEN message_id ELSE last_id

\* ---------------------------------------------------------------- actions
NoOutcome == [ result |-> "none", clip |-> "ok", notified |-> TRUE ]
\* get_recent_messages ran into its except clause.
QueryFailed == [ result |-> "query_failed", clip |-> "ok", notified |-> TRUE ]

MonitorInit ==
    /\ store = <<>>
    /\ next_rowid = 1
    /\ pc = "constructed"
    /\ last_message_id = 0
    /\ processed_codes = <<>>
    /\ messages = <<>>
    /\ idx = 1
    /\ query_cursor = 0
    /\ fetched_ids = {}
    /\ clipboard = None
    /\ emitted_log = <<>>
    /\ processed = {}
    /\ process_count = 0
    /\ last_outcome = NoOutcome
    /\ polled = FALSE
    /\ summary = -1
    /\ faults = 0
    /\ special = 0
    /\ poll_tick = FALSE

\* check_permissions(): its result; __init__ drops it.
check_permissions(exists, readable, opens) == exists /\ readable /\ opens

\* TwoFactorMonitor(): the state __init__ leaves, in an environment where
\* the database is missing, present but unreadable, or readable.
InitMode(m) ==
    /\ mode = m
    /\ dbExists \in BOOLEAN
    /\ dbReadable \in BOOLEAN
    /\ dbReadable => dbExists
    /\ MonitorInit
    /\ x_pc = "idle"
    /\ x_text = <<>>
    /\ x_code = None

IdLimit ==
    IF mode = "long" THEN LongMaxId ELSE IF mode = "live" THEN LiveMaxId ELSE MaxId
Irregular(kind) == kind # "code" \/ store # <<>>
CanInsertIrregular ==
    IF mode = "long" THEN special + faults < LongMaxIrregular ELSE special < MaxSpecial
CanFail ==
    IF mode = "long" THEN special + faults < LongMaxIrregular ELSE faults < MaxFaults

\* The Messages app inserts a row; its date puts it at position pos of the
\* rows ordered by date, newest first.
Arrive(kind) ==
    /\ pc \in { "constructed", "polling", "iterating" }
    /\ dbExists
    /\ next_rowid <= IdLimit
    /\ Irregular(kind) => CanInsertIrregular
    /\ special' = IF Irregular(kind) THEN special + 1 ELSE special
    /\ \E pos \in 1..(Len(store) + 1) :
           store' = InsertAt(store, pos, Row(kind, next_rowid))
    /\ next_rowid' = next_rowid + 1
    /\ UNCHANGED << envVars, pc, cursorVars, loopVars, outVars, polled, summary,
                    faults, poll_tick, xVars >>

\* run() up to the while loop.
Run ==
    /\ pc = "constructed"
    /\ pc' = IF ~dbExists THEN "returned" ELSE "polling"
    /\ UNCHANGED << envVars, store, next_rowid, cursorVars, loopVars, outVars,
                    polled, summary, faults, special, poll_tick, xVars >>

\* check_for_new_messages up to its for loop: the query and the early return.
Poll ==
    /\ pc = "polling"
    /\ \E query_ok \in BOOLEAN :
        /\ ~(dbExists /\ dbReadable) => ~query_ok
        /\ (dbReadable /\ ~query_ok) => CanFail
        /\ faults' = IF dbReadable /\ ~query_ok THEN faults + 1 ELSE faults
        /\ messages' = get_recent_messages(store, last_message_id, query_ok)
        /\ fetched_ids' = IF query_ok THEN IdsOf(Query(store, last_message_id)) ELSE {}
        /\ last_outcome' = IF query_ok THEN NoOutcome ELSE QueryFailed
    /\ query_cursor' = last_message_id
    /\ idx' = 1
    /\ pc' = IF messages' = <<>> THEN "polling" ELSE "iterating"
    /\ polled' = TRUE
    /\ poll_tick' = IF mode = "live" THEN ~poll_tick ELSE poll_tick
    /\ UNCHANGED << envVars, store, next_rowid, cursorVars, clipboard, emitted_log,
                    processed, process_count, summary, special, xVars >>

\* One iteration of the for loop of check_for_new_messages, with the whole
\* of process_message when the row passes the cursor test.
ProcessNext ==
    /\ pc = "iterating"
    /\ idx <= Len(messages)
    /\ LET m == messages[idx]
           go == should_process(m.id, last_message_id)
           code == extract_code(m.text)
           fresh == go /\ code # None /\ is_new_code(code, processed_codes)
       IN  \E clip \in ClipOutcomes, notify_ok \in BOOLEAN :
           LET copied == copy_to_clipboard(clip)
               fault == clip # "ok" \/ ~notify_ok
               rec == go /\ records_code(code, processed_codes, copied)
           IN  /\ ~fresh => (clip = "ok" /\ notify_ok)
               /\ copied # "True" => notify_ok
               /\ fault => CanFail
               /\ faults' = IF fault THEN faults + 1 ELSE faults
               /\ last_message_id' = new_last_message_id(m.id, last_message_id)
               /\ store' = SelectSeq(store, LAMBDA r : r.id > last_message_id')
               /\ processed' = IF go THEN processed \cup { m.id } ELSE processed
               /\ process_count' = IF go THEN process_count + 1 ELSE process_count
               /\ clipboard' = IF fresh /\ clip = "ok" THEN code ELSE clipboard
               /\ processed_codes' =
                      next_processed_codes(processed_codes, IF go THEN code ELSE None, rec)
               /\ emitted_log' = IF rec THEN Append(emitted_log, code) ELSE emitted_log
               /\ last_outcome' =
                      [ result |-> IF ~go THEN "skipped"
                                   ELSE IF code = None THEN "no_code"
                                   ELSE IF ~fresh THEN "duplicate"
                                   ELSE IF rec THEN "emitted"
                                   ELSE "not_copied",
                        clip |-> clip, notified |-> notify_ok ]
               /\ idx' = idx + 1
               /\ pc' = IF fresh /\ copied = "raised" THEN "crashed"
                         ELSE IF idx + 1 > Len(messages) THEN "polling"
                         ELSE "iterating"
    /\ UNCHANGED << envVars, next_rowid, messages, query_cursor, fetched_ids, polled,
                    summary, special, poll_tick, xVars >>

\* KeyboardInterrupt inside the while loop: the summary is printed.
Interrupt ==
    /\ pc \in { "polling", "iterating" }
    /\ pc' = "stopped"
    /\ summary' = Len(processed_codes)
    /\ UNCHANGED << envVars, store, next_rowid, cursorVars, loopVars, outVars,
                    polled, faults, special, poll_tick, xVars >>

Next ==
    \/ \E kind \in Kinds : Arrive(kind)
    \/ Run
    \/ Poll
    \/ ProcessNext
    \/ Interrupt

Init == InitMode("short")
Spec == Init /\ [][Next]_vars

InitLong == InitMode("long")
SpecLong == InitLong /\ [][Next]_vars

\* run() is a sequential loop: a call of check_for_new_messages that can be
\* made is made (after time.sleep), and so is the next iteration of its for
\* loop.
InitLive == InitMode("live")
SpecLive == InitLive /\ [][Next]_vars /\ WF_vars(Poll) /\ WF_vars(ProcessNext)

\* ------------------------------------------------ extract_code on its own
\* Number of pieces a text is put together from.
MaxPieces == 3

Pieces == { << "4", "8", "2", "9", "1", "3" >>,
            << "0", "0", "7", "7", "0", "0" >>,
            << "1", "2", "3", "4" >>,
            << "A", "B", "1", "2", "C", "D" >>,
            << "A", "1", "B", "2" >>,
            << "1", "2", "3", "4", "5", "6", "7", "8" >>,
            << "7" >>, << "Z" >>, << "x" >>, << " " >>, << "_" >>, << "," >> }

RECURSIVE TextsOf(_)
TextsOf(n) ==
    IF n = 0 THEN { <<>> }
    ELSE LET shorter == TextsOf(n - 1)
         IN  shorter \cup { t \o q : t \in shorter, q \in Pieces }

InitExtract ==
    /\ mode = "extract"
    /\ dbExists = FALSE
    /\ dbReadable = FALSE
    /\ MonitorInit
    /\ x_pc = "input"
    /\ x_text \in TextsOf(MaxPieces)
    /\ x_code = None

\* code = self.extract_code(message_text)
Extract ==
    /\ x_pc = "input"
    /\ x_code' = extract_code(x_text)
    /\ x_pc' = "done"
    /\ UNCHANGED << envVars, store, next_rowid, pc, cursorVars, loopVars, outVars,
                    polled, summary, faults, special, poll_tick, x_text >>

NextExtract == Extract

SpecExtract == InitExtract /\ [][NextExtract]_vars

\* ================================================================= claims
\* Positions at which rule k matches in text.
MatchesOf(k, text) == { i \in 1..Len(text) : MatchAt(patterns[k], text, i) }
MinOf(S) == CHOOSE i \in S : \A j \in S : i <= j
RulesWithMatch(text) == { k \in 1..Len(patterns) : MatchesOf(k, text) # {} }

\* C8: extract_code returns the leftmost match of the first rule, in the
\* order 6-digit, 4-digit, 6-alphanumeric, 4-alphanumeric, that matches
\* anywhere in the text, and None when no rule matches; with a 6-digit and a
\* 4-alphanumeric match in the text the result is the 6-digit one.
C8_ExtractPriorityLeftmost ==
    x_pc = "done" =>
        /\ patterns[1].name = "6-digit" /\ patterns[2].name = "4-digit"
        /\ patterns[3].name = "6-char" /\ patterns[4].name = "4-char"
        /\ IF RulesWithMatch(x_text) = {} THEN x_code = None
           ELSE LET k == MinOf(RulesWithMatch(x_text))
                    i == MinOf(MatchesOf(k, x_text))
                IN  x_code = SubSeq(x_text, i, i + patterns[k].n - 1)
        /\ (MatchesOf(1, x_text) # {} /\ MatchesOf(4, x_text) # {}) =>
               (Len(x_code) = 6 /\ \A j \in 1..6 : x_code[j] \in Digits)

\* A text whose 4-alphanumeric match lies left of its 6-digit match.
C8_Witness ==
    /\ x_pc = "done"
    /\ MatchesOf(1, x_text) # {}
    /\ MatchesOf(4, x_text) # {}
    /\ MinOf(MatchesOf(4, x_text)) < MinOf(MatchesOf(1, x_text))
    /\ x_code = << "4", "8", "2", "9", "1", "3" >>

\* ---------------------------------------------------------------- C1
Last(seq) == seq[Len(seq)]
\* The row the last iteration of the for loop looked at.
Handled == messages[idx - 1]
JustHandled == idx > 1 /\ idx - 1 <= Len(messages) /\ last_outcome.result # "none"

\* C1: once a code has been recorded, it is not emitted again until at
\* least 10 other distinct codes have been recorded after it: between two
\* emissions of one code lie the emissions of 10 or more other codes.
C1_NoRepeatWithinWindow ==
    \A i, j \in 1..Len(emitted_log) :
        (i < j /\ emitted_log[i] = emitted_log[j]) =>
            Cardinality({ emitted_log[k] : k \in (i + 1)..(j - 1) }
                            \ { emitted_log[i] }) >= 10

\* A code is emitted a second time, exactly 10 other codes after the first.
C1_Witness ==
    /\ Len(emitted_log) = 12
    /\ emitted_log[1] = emitted_log[12]
    /\ last_outcome.result = "emitted"

\* A later message with a recorded code is suppressed.
C1_Suppressed ==
    /\ JustHandled
    /\ last_outcome.result = "duplicate"
    /\ Contains(processed_codes, extract_code(Handled.text))
    /\ Handled.id > 1

\* ---------------------------------------------------------------- C2
BatchDone == polled /\ idx > Len(messages)

\* C2: when a batch has been iterated, every message of it whose identifier
\* is greater than the cursor the batch was fetched with has been processed,
\* and no message at or below that cursor has.
C2_AllAboveCursorProcessed ==
    BatchDone =>
        \A k \in 1..Len(messages) :
            (messages[k].id > query_cursor) <=> (messages[k].id \in processed)

\* ---------------------------------------------------------------- C3
\* C3: no identifier is passed to process_message twice: the number of
\* calls equals the number of distinct identifiers passed.
C3_ProcessedAtMostOnce == process_count = Cardinality(processed)

\* A batch holds one identifier twice (a message joined to two chats); the
\* first row was processed and the second has just been skipped.
C3_Witness ==
    /\ JustHandled
    /\ idx > 2
    /\ messages[idx - 2].id = Handled.id
    /\ Handled.id \in processed
    /\ last_outcome.result = "skipped"

\* ---------------------------------------------------------------- C4
\* C4: last_message_id starts at 0 and no step decreases it.
C4_WatermarkMonotone ==
    /\ last_message_id = 0
    /\ [][last_message_id' >= last_message_id]_vars

\* A row below the cursor has been met in a batch and left the cursor alone.
C4_Witness ==
    /\ JustHandled
    /\ Handled.id < last_message_id
    /\ last_outcome.result = "skipped"

\* ---------------------------------------------------------------- C5
\* C5: processed_codes never holds more than 10 entries.
C5_HistoryBounded == Len(processed_codes) <= 10

\* More than 10 codes have been emitted and the list has been trimmed.
C5_Witness ==
    /\ Len(emitted_log) > 10
    /\ Len(processed_codes) = 10
    /\ processed_codes[1] # emitted_log[1]

\* ---------------------------------------------------------------- C6
\* The for loop is at a row that passes the cursor test and whose candidate
\* code is not in processed_codes.
AtFreshCode ==
    /\ pc = "iterating"
    /\ idx <= Len(messages)
    /\ messages[idx].id > last_message_id
    /\ extract_code(messages[idx].text) # None
    /\ ~Contains(processed_codes, extract_code(messages[idx].text))
Recorded(code) ==
    /\ emitted_log' = Append(emitted_log, code)
    /\ processed_codes' # processed_codes
    /\ Last(processed_codes') = code
NotRecorded ==
    /\ emitted_log' = emitted_log
    /\ processed_codes' = processed_codes

C7_CursorPassesEveryFetchedRow ==
    (pc = "polling" /\ polled) =>
        \A id \in fetched_ids : id <= last_message_id

\* ---------------------------------------------------------------- C9
\* C9: when the permission check fails at startup because the database is
\* missing or unreadable, the loop never starts: no poll is made and the
\* cursor and the history stay as constructed.
C9_NoPollWithoutAccess ==
    ~check_permissions(dbExists, dbReadable, TRUE) =>
        /\ pc \notin { "polling", "iterating" }
        /\ ~polled
        /\ last_message_id = 0
        /\ processed_codes = <<>>

\* ---------------------------------------------------------------- C10
\* C10: a failed clipboard write or notification ends neither the batch nor
\* the loop: the step that meets it moves on to the next row of the same
\* list, and the loop is back at polling only with the list exhausted.
C10_FailureContained ==
    /\ [](pc = "polling" => idx > Len(messages))
    /\ [][(pc = "iterating" /\ idx' = idx + 1
             /\ (last_outcome'.clip # "ok" \/ ~last_outcome'.notified)) =>
              /\ messages' = messages
              /\ pc' = IF idx' <= Len(messages) THEN "iterating" ELSE "polling"]_vars

\* The write raised on one row and the loop stands at the next row.
C10_Witness ==
    /\ JustHandled
    /\ last_outcome.clip = "raise"
    /\ pc = "iterating"
    /\ idx <= Len(messages)

\* ---------------------------------------------------------------- C11
InLoop == pc \in { "polling", "iterating" }

\* C11: once run() is in its while loop it leaves it only by the interrupt,
\* whatever query, decoding, clipboard or notification failures occur, and
\* as long as it is not interrupted it calls check_for_new_messages again
\* and again.
C11_LoopEndsOnlyByInterrupt ==
    /\ [][InLoop => (pc' \in { "polling", "iterating" }
                        \/ (pc' = "stopped" /\ summary' = Len(processed_codes)))]_vars
    /\ (InLoop /\ ~poll_tick) ~> (pc = "stopped" \/ poll_tick)
    /\ (InLoop /\ poll_tick) ~> (pc = "stopped" \/ ~poll_tick)

\* A clipboard write has raised on a regular message, and the loop has
\* made a successful poll after it.
C11_Witness ==
    /\ pc = "polling"
    /\ special = 0
    /\ faults = 1
    /\ process_count > Len(emitted_log)
    /\ last_outcome = NoOutcome

\* ---------------------------------------------------------------- C12
\* A step of check_for_new_messages taken from the top of the while loop.
PollStep == pc = "polling" /\ pc' # "stopped" /\ next_rowid' = next_rowid
\* Inbound rows above the cursor.
EligibleIds ==
    { store[k].id : k \in { j \in 1..Len(store) :
                              store[j].id > last_message_id /\ ~store[j].is_from_me } }

\* C12: a poll whose query fails hands over an empty list, emits nothing
\* and leaves cursor, history and table untouched; the successful poll that
\* follows fetches every inbound row above the cursor, those the failed
\* poll could not read included.
C12_FailedPollChangesNothing ==
    /\ [][(PollStep /\ last_outcome'.result = "query_failed") =>
              /\ messages' = <<>>
              /\ pc' = "polling"
              /\ last_message_id' = last_message_id
              /\ processed_codes' = processed_codes
              /\ emitted_log' = emitted_log
              /\ clipboard' = clipboard
              /\ store' = store]_vars
    /\ [][(PollStep /\ last_outcome.result = "query_failed"
             /\ last_outcome'.result = "none") =>
              /\ fetched_ids' = EligibleIds
              /\ IdsOf(messages') \subseteq EligibleIds]_vars

\* The query has failed while a readable database held an inbound row with
\* text above the cursor.
C12_Witness ==
    /\ last_outcome.result = "query_failed"
    /\ dbReadable
    /\ pc = "polling"
    /\ \E k \in 1..Len(store) :
           store[k].id \in EligibleIds /\ store[k].text # None

\* ---------------------------------------------------------------- C13
\* C13: the count printed when the loop is interrupted is the number of
\* codes emitted in the session, however many there were.
C13_SummaryCountsEmissions ==
    pc = "stopped" => summary = Len(emitted_log)

\* ---------------------------------------------------------------- C14
\* C14: after k emissions processed_codes is the last min(k, 10) emitted
\* codes in the order of emission.
C14_HistoryIsLastTenEmitted ==
    LET k == Len(emitted_log)
        n == IF k < 10 THEN k ELSE 10
    IN  processed_codes = SubSeq(emitted_log, k - n + 1, k)

\* Twelve codes have been emitted: the two oldest are gone from the list.
C14_Witness ==
    /\ Len(emitted_log) = 12
    /\ processed_codes[1] = emitted_log[3]
    /\ processed_codes[10] = emitted_log[12]

\* ---------------------------------------------------------------- C15
\* text[i .. i+n-1] lies in the text and consists of characters of rule k.
ClassRunAt(k, text, i) ==
    /\ i >= 1
    /\ i + patterns[k].n - 1 <= Len(text)
    /\ \A j \in i..(i + patterns[k].n - 1) : text[j] \in patterns[k].class
NeighbourIn(text, j, S) == j >= 1 /\ j <= Len(text) /\ text[j] \in S
\* Every run of a rule's class and length is a match exactly when neither
\* neighbour is in S.
BoundedBy(S) ==
    \A k \in 1..Len(patterns) : \A i \in 1..Len(x_text) :
        ClassRunAt(k, x_text, i) =>
            (MatchAt(patterns[k], x_text, i) <=>
                /\ ~NeighbourIn(x_text, i - 1, S)
                /\ ~NeighbourIn(x_text, i + patterns[k].n, S))
EightDigits == << "1", "2", "3", "4", "5", "6", "7", "8" >>
NoDigitMatchInEight ==
    x_text = EightDigits =>
        search(patterns[1], x_text) = 0 /\ search(patterns[2], x_text) = 0

\* C15 as stated: a run is matched exactly when neither neighbour is
\* alphanumeric, an underscore counting as a boundary.
C15_BoundedByNonAlphanumeric ==
    x_pc = "done" =>
        BoundedBy(Digits \cup UpperLetters \cup LowerLetters) /\ NoDigitMatchInEight

\* C15 amended: a run is matched exactly when neither neighbour is a word
\* character of \b, that is alphanumeric or an underscore; "12345678" has
\* no 6-digit and no 4-digit match.
C15_BoundedByNonWord ==
    x_pc = "done" =>
        BoundedBy(Digits \cup UpperLetters \cup LowerLetters \cup { "_" })
            /\ NoDigitMatchInEight

\* A 6-digit run after an underscore: no rule matches it.
C15_Witness ==
    /\ x_pc = "done"
    /\ x_text = << "_", "4", "8", "2", "9", "1", "3" >>
    /\ ClassRunAt(1, x_text, 2)
    /\ x_code = None

\* ---------------------------------------------------------------- C16
\* Length of a payload after decoding, filtering, collapsing and trimming.
NormalizedLen(body) == Len(strip(CollapseFrom(SelectSeq(decode(body), Readable), 1)))
\* Stored rows without plain text whose payload normalizes to 3 characters
\* or fewer.
ShortBodyIds ==
    { store[k].id : k \in { j \in 1..Len(store) :
                              /\ store[j].text = None
                              /\ store[j].attributedBody # None
                              /\ NormalizedLen(store[j].attributedBody) <= 3 } }

\* C16: a message without plain text whose payload normalizes to at most 3
\* characters never enters the batch of a poll, the poll itself extracts
\* nothing, emits nothing and leaves the history alone, and process_message
\* is only ever called for members of the batch.
C16_ShortPayloadIsAbsent ==
    /\ [][PollStep => /\ IdsOf(messages') \cap ShortBodyIds = {}
                       /\ processed' = processed
                       /\ process_count' = process_count
                       /\ emitted_log' = emitted_log
                       /\ processed_codes' = processed_codes]_vars
    /\ [][(processed' \ processed) \subseteq IdsOf(messages)]_vars

\* A poll has fetched such a row and dropped it.
C16_Witness ==
    /\ polled
    /\ \E id \in ShortBodyIds \cap fetched_ids :
           id \notin IdsOf(messages) /\ id \notin processed

\* ---------------------------------------------------------------- C17
\* The for loop handles a row that is skipped by the cursor test, has no
\* candidate, or whose candidate is already in the history.
HandlesWithoutEmission ==
    /\ pc = "iterating"
    /\ idx <= Len(messages)
    /\ idx' = idx + 1
    /\ \/ messages[idx].id <= last_message_id
       \/ extract_code(messages[idx].text) = None
       \/ Contains(processed_codes, extract_code(messages[idx].text))

\* C17: handling a message that is skipped, yields no candidate or yields a
\* code already in the history leaves the history as it was, in content and
\* in order: a duplicate hit does not move the code to the newest end.
C17_HistoryUntouchedWithoutEmission ==
    [][HandlesWithoutEmission => processed_codes' = processed_codes]_vars

\* A duplicate of a code that is not the newest entry has been handled.
C17_Witness ==
    /\ JustHandled
    /\ last_outcome.result = "duplicate"
    /\ Len(processed_codes) >= 2
    /\ Contains(processed_codes, extract_code(Handled.text))
    /\ Last(processed_codes) # extract_code(Handled.text)

\* ---------------------------------------------------------------- C18
\* C18: the history never holds the same code twice.
C18_HistoryEntriesDistinct ==
    \A i, j \in 1..Len(processed_codes) :
        processed_codes[i] = processed_codes[j] => i = j

\* The history is full, entries have been evicted, and an evicted code has
\* been recorded a second time.
C18_Witness ==
    /\ Len(processed_codes) = max_processed_codes
    /\ \E i, j \in 1..Len(emitted_log) : i < j /\ emitted_log[i] = emitted_log[j]
    /\ Contains(processed_codes, emitted_log[1])

====
